---- MODULE Spec2Model ----
(***************************************************************************)
(* Model of backend_api/src/api/main.py: the reference extractor           *)
(* (_extract_element_reference), the element locator (_find_element), the  *)
(* serializer (_element_to_dict) and the two request handlers that run     *)
(* them per step (parse_html_test_steps, generate_selenium_script).        *)
(*                                                                         *)
(* A Python str is a sequence of one-character strings, so that regular    *)
(* expression search, strip(), split(), == and `in` are computed the way   *)
(* the code computes them.  A parsed document (BeautifulSoup tree) is the  *)
(* sequence of its nodes in document order, each with its parent's index.  *)
(***************************************************************************)
EXTENDS Integers, Sequences, FiniteSets, TLC

VARIABLES
    html,          \* payload.html, as the tree html.parser builds from it
    test_steps,    \* payload.test_steps: the step descriptions, in order
    endpoint,      \* which handler serves the request
    bs4_none_matches_empty_list, \* installed bs4 generation (see find_attrs_list)
    soup,          \* the handler's parsed tree
    idx,           \* number of loop iterations completed
    refs,          \* value of the local `ref` in each iteration
    match_infos,   \* value of the local `match_info` in each iteration
    match_methods, \* value of the local `match_method` in each iteration
    results,       \* parse_html_test_steps: the list `results`
    locators,      \* generate_selenium_script: the list `locators`
    status         \* "running", or the HTTP status of the response

vars == <<html, test_steps, endpoint, bs4_none_matches_empty_list, soup, idx,
          refs, match_infos, match_methods, results, locators, status>>

(***************************************************************************)
(* Bounds                                                                  *)
(***************************************************************************)
MaxSteps == 2

(***************************************************************************)
(* Characters and strings                                                  *)
(***************************************************************************)
LowerLetters == <<"a","b","c","d","e","f","g","h","i","j","k","l","m",
                  "n","o","p","q","r","s","t","u","v","w","x","y","z">>
UpperLetters == <<"A","B","C","D","E","F","G","H","I","J","K","L","M",
                  "N","O","P","Q","R","S","T","U","V","W","X","Y","Z">>
Digits == {"0","1","2","3","4","5","6","7","8","9"}

Range(f) == {f[i] : i \in DOMAIN f}

UpperCh == Range(UpperLetters)

\* str.lower() of one character (re.IGNORECASE compares case-folded)
Lower(c) ==
    IF c \in UpperCh
    THEN LowerLetters[CHOOSE i \in DOMAIN UpperLetters : UpperLetters[i] = c]
    ELSE c

WordCh  == Range(LowerLetters) \cup Range(UpperLetters) \cup Digits \cup {"_"}  \* \w
SpaceCh == {" ", "\t", "\n"}                                                   \* \s
QuoteCh == {"'", "\""}                                                         \* ['"]
TokenCh == WordCh \cup {"-", ":"}                                              \* [\w\-:]
ClassCh == WordCh \cup {"-", ":", " "}                                         \* [\w\-: ]
HintCh  == WordCh \cup {"-"} \cup SpaceCh                                      \* [\w\-\s]

SetMin(S) == CHOOSE x \in S : \A y \in S : x <= y
SetMax(S) == CHOOSE x \in S : \A y \in S : x >= y

\* s[first of keep .. last of keep], "" when keep is empty
Span(s, keep) == IF keep = {} THEN <<>> ELSE SubSeq(s, SetMin(keep), SetMax(keep))

\* str.strip()
Strip(s) == Span(s, {i \in 1..Len(s) : s[i] \notin SpaceCh})

\* end (exclusive) of the longest run of characters of C starting at i
RunEnd(s, i, C) ==
    CHOOSE j \in i..(Len(s) + 1) :
        /\ \A k \in i..(j - 1) : s[k] \in C
        /\ (j = Len(s) + 1 \/ s[j] \notin C)

\* end (exclusive) of the longest run of characters outside C starting at i
RunEndNot(s, i, C) ==
    CHOOSE j \in i..(Len(s) + 1) :
        /\ \A k \in i..(j - 1) : s[k] \notin C
        /\ (j = Len(s) + 1 \/ s[j] \in C)

\* str.split(): the maximal runs of non-whitespace, in order
RECURSIVE SplitFrom(_, _), SplitWord(_, _, _)
SplitFrom(s, i) == SplitWord(s, RunEnd(s, i, SpaceCh), RunEndNot(s, RunEnd(s, i, SpaceCh), SpaceCh))
SplitWord(s, a, b) ==
    IF a > Len(s) THEN <<>> ELSE <<SubSeq(s, a, b - 1)>> \o SplitFrom(s, b)

Split(s) == SplitFrom(s, 1)

\* `a in b` for two str
Contains(b, a) ==
    \E i \in 1..(Len(b) - Len(a) + 1) : SubSeq(b, i, i + Len(a) - 1) = a

\* " ".join(list)
RECURSIVE JoinSpace(_)
JoinSpace(l) ==
    IF l = <<>> THEN <<>>
    ELSE IF Len(l) = 1 THEN l[1]
    ELSE l[1] \o <<" ">> \o JoinSpace(Tail(l))

(***************************************************************************)
(* Regular expressions: a pattern is a sequence of atoms, matched with     *)
(* Python's greedy, backtracking, leftmost semantics.                      *)
(***************************************************************************)
\* \b
Bnd == [t |-> "bnd", v |-> <<>>, set |-> {}, neg |-> FALSE, min |-> 0, many |-> FALSE, cap |-> 0]
\* a literal, compared case-insensitively
Lit(v) == [t |-> "lit", v |-> v, set |-> {}, neg |-> FALSE, min |-> 0, many |-> FALSE, cap |-> 0]
\* (v1|v2|...) capturing group `cap`
Alt(vs, cap) == [t |-> "alt", v |-> vs, set |-> {}, neg |-> FALSE, min |-> 0, many |-> FALSE, cap |-> cap]
\* a character class ([^...] when neg), repeated: min 0 or 1, one or many;
\* captured as group `cap` when cap > 0
Cls(set, neg, min, many, cap) ==
    [t |-> "cls", v |-> <<>>, set |-> set, neg |-> neg, min |-> min, many |-> many, cap |-> cap]

Ws1   == Cls(SpaceCh, FALSE, 1, TRUE, 0)     \* \s+
Ws0   == Cls(SpaceCh, FALSE, 0, TRUE, 0)     \* \s*
OptQ  == Cls(QuoteCh, FALSE, 0, FALSE, 0)    \* [\'\"]?
Quote == Cls(QuoteCh, FALSE, 1, FALSE, 0)    \* [\'\"]
Quoted == Cls(QuoteCh, TRUE, 1, TRUE, 1)     \* ([^\'\"]+)

NoMatch == [ok |-> FALSE, g |-> <<<<>>, <<>>>>]

IsWordAt(s, i) == i \in 1..Len(s) /\ s[i] \in WordCh
WordBoundary(s, i) == IsWordAt(s, i - 1) # IsWordAt(s, i)

LitAt(s, i, lit) ==
    /\ i + Len(lit) - 1 <= Len(s)
    /\ \A k \in 1..Len(lit) : Lower(s[i + k - 1]) = lit[k]

InCls(a, c) == IF a.neg THEN c \notin a.set ELSE c \in a.set

\* end (exclusive) of the greediest repetition of class atom a at i
GreedyEnd(a, s, i) ==
    IF a.many
    THEN CHOOSE j \in i..(Len(s) + 1) :
             /\ \A k \in i..(j - 1) : InCls(a, s[k])
             /\ (j = Len(s) + 1 \/ ~InCls(a, s[j]))
    ELSE IF i <= Len(s) /\ InCls(a, s[i]) THEN i + 1 ELSE i

\* the first alternative that matched, else the next one
OrElse(r, next) == IF r.ok THEN r ELSE next

RECURSIVE MatchFrom(_, _, _, _, _), TryLen(_, _, _, _, _, _), TryAlt(_, _, _, _, _, _)

\* match atoms k.. of pat against s at position i, with groups g so far
MatchFrom(pat, k, s, i, g) ==
    IF k > Len(pat) THEN [ok |-> TRUE, g |-> g]
    ELSE LET a == pat[k] IN
         CASE a.t = "bnd" ->
                  IF WordBoundary(s, i) THEN MatchFrom(pat, k + 1, s, i, g) ELSE NoMatch
           [] a.t = "lit" ->
                  IF LitAt(s, i, a.v)
                  THEN MatchFrom(pat, k + 1, s, i + Len(a.v), g) ELSE NoMatch
           [] a.t = "alt" -> TryAlt(pat, k, s, i, g, 1)
           [] a.t = "cls" -> TryLen(pat, k, s, i, GreedyEnd(a, s, i), g)

\* the repetition pat[k] taking s[i..j-1]; on failure of the rest, give one back
TryLen(pat, k, s, i, j, g) ==
    LET a == pat[k] IN
    IF j < i + a.min THEN NoMatch
    ELSE OrElse(MatchFrom(pat, k + 1, s, j,
                          IF a.cap > 0 THEN [g EXCEPT ![a.cap] = SubSeq(s, i, j - 1)] ELSE g),
                TryLen(pat, k, s, i, j - 1, g))

\* the alternatives of pat[k], in order
TryAlt(pat, k, s, i, g, n) ==
    LET a == pat[k] IN
    IF n > Len(a.v) THEN NoMatch
    ELSE OrElse(IF LitAt(s, i, a.v[n])
                THEN MatchFrom(pat, k + 1, s, i + Len(a.v[n]),
                               [g EXCEPT ![a.cap] = SubSeq(s, i, i + Len(a.v[n]) - 1)])
                ELSE NoMatch,
                TryAlt(pat, k, s, i, g, n + 1))

\* re.search(pat, s, re.IGNORECASE): the match at the leftmost position
MatchAt(pat, s, i) == MatchFrom(pat, 1, s, i, <<<<>>, <<>>>>)
LeftmostOf(pat, s, hits) == IF hits = {} THEN NoMatch ELSE MatchAt(pat, s, SetMin(hits))
re_search(pat, s) == LeftmostOf(pat, s, {i \in 1..(Len(s) + 1) : MatchAt(pat, s, i).ok})

(***************************************************************************)
(* _extract_element_reference                                              *)
(***************************************************************************)
k_with    == <<"w","i","t","h">>
k_id      == <<"i","d">>
k_name    == <<"n","a","m","e">>
k_class   == <<"c","l","a","s","s">>
k_element == <<"e","l","e","m","e","n","t">>
k_text    == <<"t","e","x","t">>
k_where   == <<"w","h","e","r","e">>
k_is      == <<"i","s">>
k_xpath   == <<"x","p","a","t","h">>
k_button  == <<"b","u","t","t","o","n">>
k_input   == <<"i","n","p","u","t">>

\* r"\bwith\s+id\s+[\'\"]?([\w\-:]+)[\'\"]?"
rx_with_id == <<Bnd, Lit(k_with), Ws1, Lit(k_id), Ws1, OptQ,
                Cls(TokenCh, FALSE, 1, TRUE, 1), OptQ>>
\* r"\bwith\s+name\s+[\'\"]?([\w\-:]+)[\'\"]?"
rx_with_name == <<Bnd, Lit(k_with), Ws1, Lit(k_name), Ws1, OptQ,
                  Cls(TokenCh, FALSE, 1, TRUE, 1), OptQ>>
\* r"\bwith\s+class\s+[\'\"]?([\w\-: ]+)[\'\"]?"
rx_with_class == <<Bnd, Lit(k_with), Ws1, Lit(k_class), Ws1, OptQ,
                   Cls(ClassCh, FALSE, 1, TRUE, 1), OptQ>>
\* r"\belement\s+with\s+class\s+[\'\"]?([\w\-: ]+)[\'\"]?"
rx_element_with_class == <<Bnd, Lit(k_element), Ws1, Lit(k_with), Ws1, Lit(k_class), Ws1,
                           OptQ, Cls(ClassCh, FALSE, 1, TRUE, 1), OptQ>>
\* r"\btext\s*[\'\"]([^\'\"]+)[\'\"]"
rx_text == <<Bnd, Lit(k_text), Ws0, Quote, Quoted, Quote>>
\* r"\bwith\s+text\s+[\'\"]([^\'\"]+)[\'\"]"
rx_with_text == <<Bnd, Lit(k_with), Ws1, Lit(k_text), Ws1, Quote, Quoted, Quote>>
\* r"\bwhere\s+text\s+is\s+[\'\"]([^\'\"]+)[\'\"]"
rx_where_text_is == <<Bnd, Lit(k_where), Ws1, Lit(k_text), Ws1, Lit(k_is), Ws1,
                      Quote, Quoted, Quote>>
\* r"\bxpath\s+[\'\"]([^\'\"]+)[\'\"]"
rx_xpath == <<Bnd, Lit(k_xpath), Ws1, Quote, Quoted, Quote>>
\* r"(button|input|element)\s+[\"\']?([\w\-\s]+)[\"\']?"
rx_fallback == <<Alt(<<k_button, k_input, k_element>>, 1), Ws1, OptQ,
                 Cls(HintCh, FALSE, 1, TRUE, 2), OptQ>>

\* the same rules with the quoted-text rules tried before the attribute rules
patterns_text_first ==
    << [pat |-> rx_text,               key |-> "text"],
       [pat |-> rx_with_text,          key |-> "text"],
       [pat |-> rx_where_text_is,      key |-> "text"],
       [pat |-> rx_with_id,            key |-> "id"],
       [pat |-> rx_with_name,          key |-> "name"],
       [pat |-> rx_with_class,         key |-> "class"],
       [pat |-> rx_element_with_class, key |-> "class"],
       [pat |-> rx_xpath,              key |-> "xpath"] >>

\* the list `patterns`, in the order the loop tries it
patterns ==
    << [pat |-> rx_with_id,            key |-> "id"],
       [pat |-> rx_with_name,          key |-> "name"],
       [pat |-> rx_with_class,         key |-> "class"],
       [pat |-> rx_element_with_class, key |-> "class"],
       [pat |-> rx_text,               key |-> "text"],
       [pat |-> rx_with_text,          key |-> "text"],
       [pat |-> rx_where_text_is,      key |-> "text"],
       [pat |-> rx_xpath,              key |-> "xpath"] >>

\* the dict {}
EmptyDict == [k \in {} |-> <<>>]

\* the last attempt: {"type": group(1).strip(), "text": group(2).strip()}, or {}
FallbackRef(m) == IF m.ok THEN [type |-> Strip(m.g[1]), text |-> Strip(m.g[2])] ELSE EmptyDict
extract_fallback(step) == FallbackRef(re_search(rx_fallback, step))

\* for pat, key in patterns: first match returns {key: m.group(1).strip()}
RECURSIVE extract_loop(_, _)
RuleRef(m, key, otherwise) == IF m.ok THEN (key :> Strip(m.g[1])) ELSE otherwise
extract_loop(step, k) ==
    IF k > Len(patterns) THEN extract_fallback(step)
    ELSE RuleRef(re_search(patterns[k].pat, step), patterns[k].key, extract_loop(step, k + 1))

extract_element_reference(step) == extract_loop(step, 1)

(***************************************************************************)
(* The parsed document and BeautifulSoup's find / get_text                 *)
(***************************************************************************)
\* a Tag: its parent's index (0 at top level), name and attribute dict;
\* html.parser stores the class attribute as the list of its tokens
Tag(parent, name, attrs) ==
    [kind |-> "tag", parent |-> parent, name |-> name, attrs |-> attrs, s |-> <<>>]
\* a NavigableString
Str(parent, s) ==
    [kind |-> "str", parent |-> parent, name |-> <<>>, attrs |-> EmptyDict, s |-> s]

RECURSIVE IsDescendant(_, _, _)
IsDescendant(tree, j, i) ==
    /\ tree[j].parent # 0
    /\ (tree[j].parent = i \/ IsDescendant(tree, tree[j].parent, i))

\* tag.get_text(strip=True): every descendant string, stripped, the empty
\* ones dropped, concatenated in document order
RECURSIVE get_text_from(_, _, _)
get_text_from(tree, i, j) ==
    IF j > Len(tree) THEN <<>>
    ELSE (IF tree[j].kind = "str" /\ IsDescendant(tree, j, i)
          THEN Strip(tree[j].s) ELSE <<>>) \o get_text_from(tree, i, j + 1)

get_text(tree, i) == get_text_from(tree, i, i + 1)

\* soup.find(...): the first Tag in document order that matches, 0 for None
Nodes(tree) == 1..Len(tree)
FirstOf(hits) == IF hits = {} THEN 0 ELSE SetMin(hits)
first_tag(tree, matching) ==
    FirstOf({i \in Nodes(tree) : tree[i].kind = "tag" /\ i \in matching})

\* soup.find(attrs={attr: value}) with a str value: the attribute is present
\* and equal to the value
find_attrs_str(tree, attr, value) ==
    first_tag(tree, {i \in Nodes(tree) : /\ attr \in DOMAIN tree[i].attrs
                                          /\ tree[i].attrs[attr] = value})

\* soup.find(attrs={attr: values}) with a list of str: a multi-valued attribute
\* matches when one of its tokens, or its tokens joined by spaces, equals one
\* of the values.  A Tag without the attribute is matched against None: bs4
\* up to 4.12 answers `not values` (true for the empty list), bs4 from 4.13
\* never matches the empty list.
find_attrs_list(tree, attr, values) ==
    first_tag(tree, {i \in Nodes(tree) :
        IF attr \in DOMAIN tree[i].attrs
        THEN \/ \E t \in Range(tree[i].attrs[attr]) : t \in Range(values)
             \/ JoinSpace(tree[i].attrs[attr]) \in Range(values)
        ELSE values = <<>> /\ bs4_none_matches_empty_list})

(***************************************************************************)
(* _find_element                                                           *)
(***************************************************************************)
None == [none |-> TRUE]

\* soup.find(lambda tag: tag.get_text(strip=True) == ref["text"])
find_text_exact(tree, text) ==
    first_tag(tree, {i \in Nodes(tree) : get_text(tree, i) = text})
\* soup.find(lambda tag: ref["text"] in tag.get_text(strip=True))
find_text_contains(tree, text) ==
    first_tag(tree, {i \in Nodes(tree) : Contains(get_text(tree, i), text)})

\* if key in ref: el = ...; if el: return {"method": method, "element": el}
\* and otherwise go on to the next `if`
Attempt(present, method, el, otherwise) ==
    IF present /\ el # 0 THEN [method |-> method, element |-> el] ELSE otherwise

\* as if the text search were one pass: the first Tag whose text equals or
\* contains the target
find_element_one_pass(tree, ref) ==
    Attempt("id" \in DOMAIN ref, "id", find_attrs_str(tree, "id", ref["id"]),
    Attempt("name" \in DOMAIN ref, "name", find_attrs_str(tree, "name", ref["name"]),
    Attempt("class" \in DOMAIN ref, "class", find_attrs_list(tree, "class", Split(ref["class"])),
    Attempt("text" \in DOMAIN ref,
            IF "text" \in DOMAIN ref
               /\ find_text_contains(tree, ref["text"]) = find_text_exact(tree, ref["text"])
            THEN "text_exact" ELSE "text_contains",
            find_text_contains(tree, ref["text"]),
    None))))

\* as if an xpath reference were answered with the document's first element
find_element_xpath_first(tree, ref) ==
    Attempt("id" \in DOMAIN ref, "id", find_attrs_str(tree, "id", ref["id"]),
    Attempt("name" \in DOMAIN ref, "name", find_attrs_str(tree, "name", ref["name"]),
    Attempt("class" \in DOMAIN ref, "class", find_attrs_list(tree, "class", Split(ref["class"])),
    Attempt("text" \in DOMAIN ref, "text_exact", find_text_exact(tree, ref["text"]),
    Attempt("text" \in DOMAIN ref, "text_contains", find_text_contains(tree, ref["text"]),
    Attempt("xpath" \in DOMAIN ref, "xpath", first_tag(tree, Nodes(tree)),
    None))))))

\* str.lower()
LowerStr(s) == [i \in 1..Len(s) |-> Lower(s[i])]

\* as if the hint word of a fallback reference restricted the text search to
\* Tags of that name
find_element_by_hinted_tag(tree, ref) ==
    Attempt("id" \in DOMAIN ref, "id", find_attrs_str(tree, "id", ref["id"]),
    Attempt("name" \in DOMAIN ref, "name", find_attrs_str(tree, "name", ref["name"]),
    Attempt("class" \in DOMAIN ref, "class", find_attrs_list(tree, "class", Split(ref["class"])),
    Attempt("text" \in DOMAIN ref, "text_exact",
            first_tag(tree, {i \in Nodes(tree) :
                                /\ get_text(tree, i) = ref["text"]
                                /\ ("type" \in DOMAIN ref => tree[i].name = LowerStr(ref["type"]))}),
    Attempt("text" \in DOMAIN ref, "text_contains",
            first_tag(tree, {i \in Nodes(tree) :
                                /\ Contains(get_text(tree, i), ref["text"])
                                /\ ("type" \in DOMAIN ref => tree[i].name = LowerStr(ref["type"]))}),
    None)))))

find_element(tree, ref) ==
    Attempt("id" \in DOMAIN ref, "id", find_attrs_str(tree, "id", ref["id"]),
    Attempt("name" \in DOMAIN ref, "name", find_attrs_str(tree, "name", ref["name"]),
    Attempt("class" \in DOMAIN ref, "class", find_attrs_list(tree, "class", Split(ref["class"])),
    Attempt("text" \in DOMAIN ref, "text_exact", find_text_exact(tree, ref["text"]),
    Attempt("text" \in DOMAIN ref, "text_contains", find_text_contains(tree, ref["text"]),
    IF "xpath" \in DOMAIN ref THEN None ELSE None)))))

(***************************************************************************)
(* _element_to_dict                                                        *)
(***************************************************************************)
\* tag.get_text(): the descendant strings as they are, concatenated
RECURSIVE get_text_unstripped(_, _, _)
get_text_unstripped(tree, i, j) ==
    IF j > Len(tree) THEN <<>>
    ELSE (IF tree[j].kind = "str" /\ IsDescendant(tree, j, i) THEN tree[j].s ELSE <<>>)
         \o get_text_unstripped(tree, i, j + 1)

\* as if the text were taken with get_text() instead of get_text(strip=True)
element_to_dict_unstripped(tree, element) ==
    IF element = 0 THEN EmptyDict
    ELSE [tag        |-> tree[element].name,
          attributes |-> tree[element].attrs,
          text       |-> get_text_unstripped(tree, element, element + 1)]

\* as if the guard were `if not element or not element.attrs`
element_to_dict_needs_attrs(tree, element) ==
    IF element = 0 \/ tree[element].attrs = EmptyDict THEN EmptyDict
    ELSE [tag        |-> tree[element].name,
          attributes |-> tree[element].attrs,
          text       |-> get_text(tree, element)]

element_to_dict(tree, element) ==
    IF element = 0 THEN EmptyDict
    ELSE [tag        |-> tree[element].name,
          attributes |-> tree[element].attrs,
          text       |-> get_text(tree, element)]

(***************************************************************************)
(* Requests: the documents and step descriptions the handlers are run on   *)
(***************************************************************************)
sp   == <<" ">>
apos == <<"'">>
w_see    == <<"s","e","e">>
w_use    == <<"u","s","e">>
w_press  == <<"p","r","e","s","s">>
w_Button == <<"B","u","t","t","o","n">>
w_Wait   == <<"W","a","i","t">>
w_ok     == <<"o","k">>
w_q      == <<"q">>
w_a      == <<"a">>
w_b      == <<"b">>
w_i      == <<"i">>
w_p      == <<"p">>
w_div    == <<"d","i","v">>
w_Hi     == <<"H","i">>
w_HiBang == <<"H","i","!">>
w_yo     == <<"y","o">>
w_path   == <<"/","/","a">>

\* "text 'Hi' with id ok"
step_text_then_id == k_text \o sp \o apos \o w_Hi \o apos \o sp \o k_with \o sp \o k_id \o sp \o w_ok
\* "with name q"
step_name == k_with \o sp \o k_name \o sp \o w_q
\* "with class a b"
step_class == k_with \o sp \o k_class \o sp \o w_a \o sp \o w_b
\* "with class ' '"
step_class_blank == k_with \o sp \o k_class \o sp \o apos \o sp \o apos
\* "see text 'Hi'"
step_text == w_see \o sp \o k_text \o sp \o apos \o w_Hi \o apos
\* "where text is 'i'"
step_where_text == k_where \o sp \o k_text \o sp \o k_is \o sp \o apos \o w_i \o apos
\* "use xpath '//a'"
step_xpath == w_use \o sp \o k_xpath \o sp \o apos \o w_path \o apos
\* "press Button Hi"
step_hint == w_press \o sp \o w_Button \o sp \o w_Hi
\* "Wait"
step_none == w_Wait

StepPool == {step_text_then_id, step_name, step_class, step_class_blank,
             step_text, step_where_text, step_xpath, step_hint, step_none}

\* "Hi": text and no element
doc_text_only == << Str(0, w_Hi) >>
\* <div class="a"><b id="ok" class="b">Hi!</b><i name="q" class="a b"> Hi </i></div>
doc_nested ==
    << Tag(0, w_div, [class |-> <<w_a>>]),
       Tag(1, w_b, [id |-> w_ok, class |-> <<w_b>>]),
       Str(2, w_HiBang),
       Tag(1, w_i, [name |-> w_q, class |-> <<w_a, w_b>>]),
       Str(4, sp \o w_Hi \o sp) >>
\* <a id="ok">Hi</a><button id="ok" name="q">Hi</button>
doc_same_id ==
    << Tag(0, w_a, [id |-> w_ok]),
       Str(1, w_Hi),
       Tag(0, k_button, [id |-> w_ok, name |-> w_q]),
       Str(3, w_Hi) >>
\* <p>Hi <b>yo</b></p>
doc_contains ==
    << Tag(0, w_p, EmptyDict),
       Str(1, w_Hi \o sp),
       Tag(1, w_b, EmptyDict),
       Str(3, w_yo) >>

Docs == {doc_text_only, doc_nested, doc_same_id, doc_contains}

StepLists == UNION {[1..n -> StepPool] : n \in 0..MaxSteps}

(***************************************************************************)
(* The handlers                                                            *)
(***************************************************************************)
Init ==
    /\ html \in Docs
    /\ test_steps \in StepLists
    /\ endpoint \in {"parse_html_test_steps", "generate_selenium_script"}
    /\ bs4_none_matches_empty_list \in BOOLEAN
    /\ soup = <<>>
    /\ idx = 0
    /\ refs = <<>>
    /\ match_infos = <<>>
    /\ match_methods = <<>>
    /\ results = <<>>
    /\ locators = <<>>
    /\ status = "received"

\* soup = BeautifulSoup(payload.html, "html.parser"), in either handler
ParseHtml ==
    /\ status = "received"
    /\ soup' = html
    /\ status' = "running"
    /\ UNCHANGED <<html, test_steps, endpoint, bs4_none_matches_empty_list, idx,
                   refs, match_infos, match_methods, results, locators>>

\* as if the loop were enumerate(payload.test_steps, 1)
ElementMatch_from_one(step_index, step_description, matched_element, match_method) ==
    [step_index |-> step_index + 1, step_description |-> step_description,
     matched_element |-> matched_element, match_method |-> match_method]

\* ElementMatch(step_index=, step_description=, matched_element=, match_method=)
ElementMatch(step_index, step_description, matched_element, match_method) ==
    [step_index |-> step_index, step_description |-> step_description,
     matched_element |-> matched_element, match_method |-> match_method]

\* as if serializing a matched element took its attributes out of the tree
ParseStep_consuming ==
    /\ endpoint = "parse_html_test_steps"
    /\ status = "running"
    /\ idx < Len(test_steps)
    /\ \E ref \in {extract_element_reference(test_steps[idx + 1])} :
       \E match_info \in {find_element(soup, ref)} :
       LET step == test_steps[idx + 1]
           matched_element == IF match_info # None /\ match_info.element # 0
                              THEN element_to_dict(soup, match_info.element)
                              ELSE EmptyDict
           match_method == IF match_info # None THEN match_info.method ELSE "not found"
       IN  /\ results' = Append(results, ElementMatch(idx, step, matched_element, match_method))
           /\ refs' = Append(refs, ref)
           /\ match_infos' = Append(match_infos, match_info)
           /\ match_methods' = Append(match_methods, match_method)
           /\ soup' = IF match_info # None
                      THEN [soup EXCEPT ![match_info.element].attrs = EmptyDict]
                      ELSE soup
    /\ idx' = idx + 1
    /\ UNCHANGED <<html, test_steps, endpoint, bs4_none_matches_empty_list,
                   locators, status>>

\* one iteration of `for idx, step in enumerate(payload.test_steps)` in
\* parse_html_test_steps
ParseStep ==
    /\ endpoint = "parse_html_test_steps"
    /\ status = "running"
    /\ idx < Len(test_steps)
    /\ \E ref \in {extract_element_reference(test_steps[idx + 1])} :
       \E match_info \in {find_element(soup, ref)} :
       LET step == test_steps[idx + 1]
           matched_element == IF match_info # None /\ match_info.element # 0
                              THEN element_to_dict(soup, match_info.element)
                              ELSE EmptyDict
           match_method == IF match_info # None THEN match_info.method ELSE "not found"
       IN  /\ results' = Append(results, ElementMatch(idx, step, matched_element, match_method))
           /\ refs' = Append(refs, ref)
           /\ match_infos' = Append(match_infos, match_info)
           /\ match_methods' = Append(match_methods, match_method)
    /\ idx' = idx + 1
    /\ UNCHANGED <<html, test_steps, endpoint, bs4_none_matches_empty_list, soup,
                   locators, status>>

\* return HTMLTestParseResponse(elements=results)
ParseReturn ==
    /\ endpoint = "parse_html_test_steps"
    /\ status = "running"
    /\ idx = Len(test_steps)
    /\ status' = "200"
    /\ UNCHANGED <<html, test_steps, endpoint, bs4_none_matches_empty_list, soup, idx,
                   refs, match_infos, match_methods, results, locators>>

l_by_id    == <<"B","y",".","I","D",","," ","'">>
l_by_name  == <<"B","y",".","N","A","M","E",","," ","'">>
l_by_class == <<"B","y",".","C","L","A","S","S","_","N","A","M","E",","," ","'">>
l_text     == <<"#"," ","f","i","n","d"," ","e","l","e","m","e","n","t"," ","w","i","t","h",
                " ","v","i","s","i","b","l","e"," ","t","e","x","t"," ","'">>
l_fallback == <<"#"," ","f","a","l","l","b","a","c","k","/","n","o","-","m","a","t","c","h">>

\* match_method.startswith("text")
StartsWithText(m) == m \in {"text_exact", "text_contains"}

\* the if/elif chain that builds locator_str; a class attribute is always a
\* list here, so `classes` is " ".join of it
locator_str(match_method, elem_dict) ==
    LET has(key) == /\ elem_dict # EmptyDict
                    /\ "attributes" \in DOMAIN elem_dict
                    /\ key \in DOMAIN elem_dict.attributes
    IN  IF match_method = "id" /\ has("id")
        THEN l_by_id \o elem_dict.attributes["id"] \o apos
        ELSE IF match_method = "name" /\ has("name")
        THEN l_by_name \o elem_dict.attributes["name"] \o apos
        ELSE IF match_method = "class" /\ has("class")
        THEN l_by_class \o JoinSpace(elem_dict.attributes["class"]) \o apos
        ELSE IF StartsWithText(match_method) /\ elem_dict # EmptyDict /\ "text" \in DOMAIN elem_dict
        THEN l_text \o elem_dict.text \o apos
        ELSE l_fallback

\* one iteration of the loop of generate_selenium_script
GenerateStep ==
    /\ endpoint = "generate_selenium_script"
    /\ status = "running"
    /\ idx < Len(test_steps)
    /\ \E ref \in {extract_element_reference(test_steps[idx + 1])} :
       \E match_info \in {find_element(soup, ref)} :
       \E elem_dict \in {element_to_dict(soup, IF match_info # None /\ match_info.element # 0
                                                THEN match_info.element ELSE 0)} :
       LET step == test_steps[idx + 1]
           match_method == IF match_info # None THEN match_info.method ELSE "not found"
       IN  /\ locators' = Append(locators, [step |-> step,
                                            locator |-> locator_str(match_method, elem_dict),
                                            element |-> elem_dict])
           /\ refs' = Append(refs, ref)
           /\ match_infos' = Append(match_infos, match_info)
           /\ match_methods' = Append(match_methods, match_method)
    /\ idx' = idx + 1
    /\ UNCHANGED <<html, test_steps, endpoint, bs4_none_matches_empty_list, soup,
                   results, status>>

\* after the loop: the prompt is built and Gemini is called.  The response is
\* 500 without GEMINI_API_KEY, 502 when the call fails, else 200 with the
\* script and `locators`
GenerateRespond ==
    /\ endpoint = "generate_selenium_script"
    /\ status = "running"
    /\ idx = Len(test_steps)
    /\ \E gemini_api_key_set \in BOOLEAN, gemini_ok \in BOOLEAN :
           status' = IF ~gemini_api_key_set THEN "500"
                     ELSE IF ~gemini_ok THEN "502" ELSE "200"
    /\ UNCHANGED <<html, test_steps, endpoint, bs4_none_matches_empty_list, soup, idx,
                   refs, match_infos, match_methods, results, locators>>

Next ==
    \/ ParseHtml
    \/ ParseStep
    \/ ParseReturn
    \/ GenerateStep
    \/ GenerateRespond

Spec == Init /\ [][Next]_vars

(***************************************************************************)
(* Properties                                                              *)
(***************************************************************************)
Methods == {"id", "name", "class", "text_exact", "text_contains"}
Tags(tree) == {n \in 1..Len(tree) : tree[n].kind = "tag"}
Found(i) == match_infos[i] # None
Finished == status \notin {"received", "running"}

\* C1: parse_html_test_steps returns one record per step, in input order;
\* record i carries step_index i (0-based) and the i-th description verbatim,
\* whether or not the step extracted a reference or found a node.
C1_OneRecordPerStep ==
    endpoint = "parse_html_test_steps" =>
        /\ Len(results) = idx
        /\ \A i \in 1..Len(results) :
               /\ results[i].step_index = i - 1
               /\ results[i].step_description = test_steps[i]
        /\ (Finished => Len(results) = Len(test_steps))

\* a finished call whose first step missed and whose second step matched
C1_Witness ==
    /\ endpoint = "parse_html_test_steps"
    /\ status = "200"
    /\ Len(results) = 2
    /\ results[1].match_method = "not found"
    /\ results[2].match_method \in Methods
    /\ test_steps[1] # test_steps[2]

\* the Tags whose class attribute holds every one of the tokens
TagsWithAllClasses(tree, tokens) ==
    {n \in Tags(tree) : /\ "class" \in DOMAIN tree[n].attrs
                        /\ Range(tokens) \subseteq Range(tree[n].attrs["class"])}

\* C2: for a reference with only class populated (and at least one token),
\* the locator returns, with method class, the first node in document order
\* whose class tokens contain ALL the supplied tokens, and never a node that
\* bears only a proper subset of them.
C2_ClassNeedsAllTokens ==
    \A i \in 1..Len(refs) :
        (DOMAIN refs[i] = {"class"} /\ Split(refs[i]["class"]) # <<>>) =>
            match_infos[i] =
                IF TagsWithAllClasses(html, Split(refs[i]["class"])) = {} THEN None
                ELSE [method |-> "class",
                      element |-> SetMin(TagsWithAllClasses(html, Split(refs[i]["class"])))]

TagsWithText(tree, text) == {n \in Tags(tree) : get_text(tree, n) = text}
TagsContaining(tree, text) == {n \in Tags(tree) : Contains(get_text(tree, n), text)}

C3_Law(info, exact) ==
    /\ exact # {} => info = [method |-> "text_exact", element |-> SetMin(exact)]
    /\ (info # None /\ info.method = "text_contains") => exact = {}

\* C3: for a reference with text T, when some node's trimmed text equals T
\* the result is text_exact with the first such node in document order;
\* text_contains is returned only when no node of the document has text T.
C3_TextTwoPhase ==
    \A i \in 1..Len(refs) :
        "text" \in DOMAIN refs[i] =>
            C3_Law(match_infos[i], TagsWithText(html, refs[i]["text"]))

\* a text reference whose exact match comes after a node that only contains T
C3_Witness ==
    \E i \in 1..Len(refs) :
        /\ "text" \in DOMAIN refs[i]
        /\ Found(i)
        /\ match_infos[i].method = "text_exact"
        /\ \E n \in TagsContaining(html, refs[i]["text"]) : n < match_infos[i].element

\* C4: a step whose reference is of kind xpath yields "not found" and an
\* empty matched element, for every document.
C4_XpathNotFound ==
    \A i \in 1..Len(refs) :
        "xpath" \in DOMAIN refs[i] =>
            /\ match_infos[i] = None
            /\ match_methods[i] = "not found"
            /\ endpoint = "parse_html_test_steps" =>
                   /\ results[i].match_method = "not found"
                   /\ results[i].matched_element = EmptyDict
            /\ endpoint = "generate_selenium_script" => locators[i].element = EmptyDict

\* an xpath step processed against a document that has elements
C4_Witness ==
    \E i \in 1..Len(refs) :
        /\ refs[i] = [xpath |-> w_path]
        /\ Tags(html) # {}
        /\ endpoint = "parse_html_test_steps"

Hit(rx, step) == re_search(rx, step).ok
Group1(rx, step) == Strip(re_search(rx, step).g[1])

\* the reference the rule order id, name, class, text variants, xpath,
\* fallback prescribes for a step
C5_Expected(step) ==
    IF Hit(rx_with_id, step) THEN [id |-> Group1(rx_with_id, step)]
    ELSE IF Hit(rx_with_name, step) THEN [name |-> Group1(rx_with_name, step)]
    ELSE IF Hit(rx_with_class, step) THEN [class |-> Group1(rx_with_class, step)]
    ELSE IF Hit(rx_element_with_class, step)
         THEN [class |-> Group1(rx_element_with_class, step)]
    ELSE IF Hit(rx_text, step) THEN [text |-> Group1(rx_text, step)]
    ELSE IF Hit(rx_with_text, step) THEN [text |-> Group1(rx_with_text, step)]
    ELSE IF Hit(rx_where_text_is, step) THEN [text |-> Group1(rx_where_text_is, step)]
    ELSE IF Hit(rx_xpath, step) THEN [xpath |-> Group1(rx_xpath, step)]
    ELSE IF Hit(rx_fallback, step)
         THEN [type |-> Strip(re_search(rx_fallback, step).g[1]),
               text |-> Strip(re_search(rx_fallback, step).g[2])]
    ELSE EmptyDict

\* C5_Expected, tabulated over the steps
C5_ExpectedOf == [step \in StepPool |-> C5_Expected(step)]

\* C5: the extracted reference is the payload of the lowest-numbered rule
\* that matches anywhere in the step; a step holding both an id pattern and a
\* quoted text pattern yields {id: token}, wherever the two occur.
C5_FirstRuleWins ==
    \A i \in 1..Len(refs) : refs[i] = C5_ExpectedOf[test_steps[i]]

FirstPos(rx, step) == SetMin({i \in 1..(Len(step) + 1) : MatchAt(rx, step, i).ok})

\* a step whose text pattern occurs before its id pattern, extracted as id
C5_Witness ==
    \E i \in 1..Len(refs) :
        /\ Hit(rx_text, test_steps[i])
        /\ Hit(rx_with_id, test_steps[i])
        /\ FirstPos(rx_text, test_steps[i]) < FirstPos(rx_with_id, test_steps[i])
        /\ refs[i] = [id |-> w_ok]

\* the serialized element of iteration i, as the response carries it
Snapshot(i) ==
    IF endpoint = "parse_html_test_steps" THEN results[i].matched_element
    ELSE locators[i].element

Populated(snap) == DOMAIN snap = {"tag", "attributes", "text"}

\* C6: every record of parse_html_test_steps is either a method label with a
\* populated element (tag, attributes, text) or "not found" with the empty
\* element; the handler answers 200 whatever the steps, and a document
\* without elements gives "not found" for every step.
C6_RecordShapes ==
    endpoint = "parse_html_test_steps" =>
        /\ \A i \in 1..Len(results) :
               \/ results[i].match_method \in Methods /\ Populated(results[i].matched_element)
               \/ results[i].match_method = "not found" /\ results[i].matched_element = EmptyDict
        /\ status \in {"received", "running", "200"}
        /\ Tags(html) = {} => \A i \in 1..Len(results) : results[i].match_method = "not found"

\* a finished call with a match on an element without attributes and a step
\* whose reference found no node
C6_Witness ==
    /\ endpoint = "parse_html_test_steps"
    /\ status = "200"
    /\ \E i, j \in 1..Len(results) :
           /\ results[i].match_method \in Methods
           /\ results[i].matched_element.attributes = EmptyDict
           /\ results[j].match_method = "not found"
           /\ refs[j] # EmptyDict

PureMethod(info) == IF info # None THEN info.method ELSE "not found"
PureElement(tree, info) ==
    IF info # None THEN element_to_dict(tree, info.element) ELSE EmptyDict
C7_Agrees(i, info) ==
    /\ match_methods[i] = PureMethod(info)
    /\ Snapshot(i) = PureElement(html, info)

\* C7: the tree is parsed once and never changed by extraction, location or
\* serialization; the match of step i is the function of (html,
\* test_steps[i]) alone, so equal descriptions at different positions get
\* equal matches whatever the other steps are.  (That refs[i] is itself a
\* function of test_steps[i] alone is C5.)
C7_MatchDependsOnOwnStepOnly ==
    /\ status # "received" => soup = html
    /\ \A i \in 1..Len(refs) : C7_Agrees(i, find_element(html, refs[i]))
    /\ \A i, j \in 1..Len(refs) :
           test_steps[i] = test_steps[j] =>
               /\ match_methods[i] = match_methods[j]
               /\ Snapshot(i) = Snapshot(j)

\* the same description twice, matched on an element that has attributes
C7_Witness ==
    /\ Finished
    /\ Len(refs) = 2
    /\ test_steps[1] = test_steps[2]
    /\ Found(1)
    /\ html[match_infos[1].element].attrs # EmptyDict

\* C8: in generate_selenium_script the locator of each step follows from its
\* match_method and element: By.ID from the id attribute, By.NAME from the
\* name attribute, By.CLASS_NAME from the class tokens joined by spaces, the
\* visible-text comment for text_exact and text_contains, and the fallback
\* comment exactly when match_method is "not found"; one entry per step, in
\* input order.
C8_LocatorFollowsMethod ==
    endpoint = "generate_selenium_script" =>
        /\ Len(locators) = idx
        /\ \A i \in 1..Len(locators) :
               /\ locators[i].step = test_steps[i]
               /\ match_methods[i] = "id" =>
                      locators[i].locator = l_by_id \o html[match_infos[i].element].attrs["id"] \o apos
               /\ match_methods[i] = "name" =>
                      locators[i].locator = l_by_name \o html[match_infos[i].element].attrs["name"] \o apos
               /\ match_methods[i] = "class" =>
                      /\ "class" \in DOMAIN html[match_infos[i].element].attrs
                      /\ locators[i].locator =
                             l_by_class \o JoinSpace(html[match_infos[i].element].attrs["class"]) \o apos
               /\ StartsWithText(match_methods[i]) =>
                      locators[i].locator = l_text \o get_text(html, match_infos[i].element) \o apos
               /\ locators[i].locator = l_fallback <=> match_methods[i] = "not found"

C9_TwoPhase(exact, contains) ==
    IF exact # {} THEN [method |-> "text_exact", element |-> SetMin(exact)]
    ELSE IF contains # {} THEN [method |-> "text_contains", element |-> SetMin(contains)]
    ELSE None

\* C9: a fallback reference {type, text} arises only when none of the eight
\* rules matches, and is resolved by the two-phase text search on its text
\* alone: the hint word is not consulted, and the method is text_exact,
\* text_contains or "not found".
C9_HintIsTextSearch ==
    \A i \in 1..Len(refs) :
        "type" \in DOMAIN refs[i] =>
            /\ \A k \in 1..Len(patterns) : ~Hit(patterns[k].pat, test_steps[i])
            /\ match_infos[i] = C9_TwoPhase(TagsWithText(html, refs[i]["text"]),
                                            TagsContaining(html, refs[i]["text"]))
            /\ match_methods[i] \in {"text_exact", "text_contains", "not found"}

\* a hint step matched on a Tag of another name although a Tag of the hinted
\* name has the same text
C9_Witness ==
    \E i \in 1..Len(refs) :
        /\ "type" \in DOMAIN refs[i]
        /\ Found(i)
        /\ html[match_infos[i].element].name # LowerStr(refs[i]["type"])
        /\ \E n \in TagsWithText(html, refs[i]["text"]) : html[n].name = LowerStr(refs[i]["type"])

C10_Sound(ref, info, snap) ==
    /\ info.method = "id" =>
           /\ DOMAIN ref = {"id"}
           /\ "id" \in DOMAIN snap.attributes
           /\ snap.attributes["id"] = ref["id"]
    /\ info.method = "name" =>
           /\ DOMAIN ref = {"name"}
           /\ "name" \in DOMAIN snap.attributes
           /\ snap.attributes["name"] = ref["name"]
    /\ info.method = "class" => DOMAIN ref = {"class"}
    /\ info.method = "text_exact" => "text" \in DOMAIN ref /\ snap.text = ref["text"]
    /\ info.method = "text_contains" =>
           "text" \in DOMAIN ref /\ Contains(snap.text, ref["text"])

C10_OwnKindOnly(ref, info) ==
    /\ ("id" \in DOMAIN ref /\ info # None) => info.method = "id"
    /\ ("name" \in DOMAIN ref /\ info # None) => info.method = "name"
    /\ ("class" \in DOMAIN ref /\ info # None) => info.method = "class"
    /\ ("text" \in DOMAIN ref /\ info # None) => StartsWithText(info.method)
    /\ (ref = EmptyDict \/ "xpath" \in DOMAIN ref) => info = None

\* C10: the method label agrees with the kind of the reference extracted
\* from the same step, and the returned element satisfies that kind's
\* predicate on the extracted value (id and name equal it, text_exact equals
\* it, text_contains contains it); a reference never matches by another kind.
C10_MatchSound ==
    \A i \in 1..Len(refs) :
        /\ Found(i) => C10_Sound(refs[i], match_infos[i], Snapshot(i))
        /\ C10_OwnKindOnly(refs[i], match_infos[i])

\* an exact text match on an element whose own string has surrounding
\* whitespace, next to a reference that found no node in the same document
C10_Witness ==
    \E i, j \in 1..Len(refs) :
        /\ Found(i)
        /\ match_infos[i].method = "text_exact"
        /\ get_text_unstripped(html, match_infos[i].element, match_infos[i].element + 1)
               # refs[i]["text"]
        /\ refs[j] # EmptyDict
        /\ "xpath" \notin DOMAIN refs[j]
        /\ ~Found(j)

====
